---- MODULE Spec2Model ----
(***************************************************************************)
(* Model of libminiscope's MiniScope controller (miniscope.cpp): the       *)
(* caller thread issuing public API calls, the capture thread running      *)
(* MiniScope::captureThread, the frame ring and the video writer session.  *)
(* Every label of cpc / lpc is a point of the C++ code between two         *)
(* accesses to state shared by the two threads.                            *)
(***************************************************************************)
EXTENDS Integers, Sequences, FiniteSets, TLC

\* ---- program constants ----
RingCapacity == 64
DropCeiling == 80
DroppedFrameImage == 0
EmptyMat == -1
\* a camera property nobody has set yet
Unset == -1

\* ---- bounds of the exploration ----
MaxCalls == 3
MaxGrabs == 2
DropGoods == 1
RingSpare == 2

Paths == {"", "a", "b"}

\* arguments of setExposure, setGain and setExcitation
ExposureInputs == {-1, 0, 1, 100, 101}
GainInputs == {16, 64}
ExcitationInputs == {0, 50, 101}

VARIABLES
    \* MiniScopeData
    connected, running, recording, failed, checkRecTrigger,
    thread, droppedFramesCount, frameRing, videoFname, mutex,
    onMessageCallback, exposure, gain, excitation,
    \* the camera behind d->cam; its properties in hundredths (brightness,
    \* gain) and in two-hundredths (hue)
    camOpened, frameSeq, grabs, devBrightness, devGain, devHue,
    \* the caller thread
    cpc, cstack, cret, cop, carg, cframe, calls, opened, recovering,
    cval, repeated,
    \* the capture thread
    lpc, lmsg, status, frame, recNow, recordFrames, vwriter, tasks,
    lret, trigBit, vwFname,
    \* observations of what the threads did
    failMsg, consecDrops, spawns, initCalled, encCalled, sawRec,
    badInit, badEncode, leaked, taken, dropEnded

flagVars == <<connected, running, recording, failed, checkRecTrigger>>
settingVars == <<onMessageCallback, exposure, gain, excitation>>
dataVars == <<thread, droppedFramesCount, frameRing, videoFname, mutex,
              settingVars>>
deviceVars == <<devBrightness, devGain, devHue>>
camVars == <<camOpened, frameSeq, grabs, deviceVars>>
callerVars == <<cpc, cstack, cret, cop, carg, cframe, calls, opened, recovering,
                cval, repeated>>
loopVars == <<lpc, lmsg, status, frame, recNow, recordFrames, vwriter, tasks,
              lret, trigBit, vwFname>>
obsVars == <<failMsg, consecDrops, spawns, initCalled, encCalled, sawRec,
             badInit, badEncode, leaked, taken, dropEnded>>
vars == <<flagVars, dataVars, camVars, callerVars, loopVars, obsVars>>

\* ---- MiniScopeData() and MiniScope() ----
Init ==
    /\ connected = FALSE /\ running = FALSE /\ recording = FALSE
    /\ failed = FALSE /\ checkRecTrigger = FALSE
    /\ thread = FALSE /\ droppedFramesCount = 0 /\ frameRing = <<>>
    /\ videoFname = "" /\ mutex = "none"
    /\ onMessageCallback = FALSE
    /\ exposure = 100 /\ gain = 32 /\ excitation = 1
    /\ camOpened = FALSE /\ frameSeq = 0 /\ grabs = 0
    /\ devBrightness = Unset /\ devGain = Unset /\ devHue = Unset
    /\ cpc = "idle" /\ cstack = <<>> /\ cret = FALSE /\ cop = "none"
    /\ carg = "" /\ cframe = EmptyMat /\ calls = 0 /\ opened = "none"
    /\ recovering = FALSE /\ cval = 0 /\ repeated = FALSE
    /\ lpc = "none" /\ lmsg = "none" /\ status = FALSE /\ frame = EmptyMat
    /\ recNow = FALSE /\ recordFrames = FALSE /\ vwriter = "none" /\ tasks = 0
    /\ lret = "none" /\ trigBit = "none" /\ vwFname = ""
    /\ failMsg = "none" /\ consecDrops = 0 /\ spawns = 0
    /\ initCalled = FALSE /\ encCalled = FALSE /\ sawRec = FALSE
    /\ badInit = FALSE /\ badEncode = FALSE /\ leaked = FALSE /\ taken = 0
    /\ dropEnded = FALSE

\* ---- boost::circular_buffer<cv::Mat>(64) ----
RingPush(ring, f) ==
    IF Len(ring) >= RingCapacity THEN Append(Tail(ring), f) ELSE Append(ring, f)

\* ---- std::mutex: lock() proceeds only when nobody holds it ----
MutexFreeAlways == TRUE
MutexFree == mutex = "none"

\* ---- call and return on the caller thread ----
Call(entry, back) ==
    /\ cpc' = entry
    /\ cstack' = <<back>> \o cstack

Goto(l) == cpc' = l /\ cstack' = cstack

Leave ==
    IF cstack = <<>>
    THEN cpc' = "idle" /\ cstack' = cstack
    ELSE cpc' = Head(cstack) /\ cstack' = Tail(cstack)

Ret(v) == Leave /\ cret' = v
RetVoid == Leave /\ cret' = cret

\* ---- what the setters hand to cv::VideoCapture::set ----
\* setExposure: if (value == 0) value = 1; if (value > 100) value = 100;
SanitizeExposure(value) ==
    IF value = 0 THEN 1 ELSE IF value > 100 THEN 100 ELSE value

\* static_cast<double>(v) / 100, in hundredths
PercentProp(v) == v
\* v itself, converted to double, in hundredths
RawProp(v) == v * 100
\* setLed: if (value > 100) value = 100; value / 2 / 100, in two-hundredths
LedPower(value) == IF value > 100 THEN 100 ELSE value

\* cv::VideoCapture::set changes a property of an opened camera only
DevSet(old, v) == IF camOpened THEN v ELSE old

\* ---- MiniScope::emitMessage ----
\* Without a registered callback the message goes to std::cout. With one,
\* control is at d->mutex.lock() and continues at `next` when the callback
\* has returned and the mutex is unlocked.
LEmit(next) ==
    IF onMessageCallback
    THEN lpc' = "emit_lock" /\ lret' = next
    ELSE lpc' = next /\ lret' = lret

\* emitMessage as the last statement of a method of the caller thread
CEmitLeave == IF onMessageCallback THEN Goto("emit_lock") ELSE Leave

\* A public method is entered from the idle caller thread: control is at
\* `entry` and `conts` are the points to continue at as the calls return.
\* The call takes `cost` from the budget of calls.
EnterWith(op, entry, conts, arg, value, budget, cost) ==
    /\ cpc = "idle"
    /\ calls + cost <= budget
    /\ calls' = calls + cost
    /\ cop' = op /\ carg' = arg /\ cval' = value
    /\ repeated' = (op = cop /\ op \in {"stop", "disconnect"})
    /\ cpc' = entry /\ cstack' = conts
    /\ opened' = "none" /\ recovering' = FALSE
    /\ cframe' = EmptyMat
    /\ dropEnded' = IF op = "startRecording" THEN FALSE ELSE dropEnded
    /\ UNCHANGED cret
    /\ UNCHANGED <<failMsg, consecDrops, spawns, initCalled, encCalled, sawRec,
                   badInit, badEncode, leaked, taken>>
    /\ UNCHANGED <<flagVars, dataVars, camVars, loopVars>>

Enter(op, entry, conts, arg, budget, cost) ==
    EnterWith(op, entry, conts, arg, 0, budget, cost)

ApiConnect(budget, cost) ==
    Enter("connect", "connect_check", <<>>, "", budget, cost)
\* disconnect() begins with stop()
ApiDisconnect(budget, cost) ==
    Enter("disconnect", "stop_running", <<"disc_release">>, "", budget, cost)
ApiRun(budget, cost) == Enter("run", "run_check", <<>>, "", budget, cost)
ApiStop(budget, cost) == Enter("stop", "stop_running", <<>>, "", budget, cost)
ApiStartRecording(budget, cost) ==
    \E fname \in Paths :
        Enter("startRecording", "sr_check", <<>>, fname, budget, cost)

\* MiniScope::stopRecording: one atomic store
ApiStopRecording(budget, cost) ==
    /\ cpc = "idle"
    /\ calls + cost <= budget
    /\ calls' = calls + cost
    /\ cop' = "stopRecording" /\ carg' = "" /\ cval' = 0
    /\ repeated' = FALSE
    /\ opened' = "none" /\ recovering' = FALSE
    /\ cframe' = EmptyMat
    /\ recording' = FALSE
    /\ UNCHANGED <<cpc, cstack, cret>>
    /\ UNCHANGED <<connected, running, failed, checkRecTrigger>>
    /\ UNCHANGED <<dataVars, camVars, loopVars, obsVars>>

\* MiniScope::setExternalRecordTrigger: one atomic store. Only a call that
\* changes the flag is a step, and it takes nothing from the call budget.
ApiSetExternalRecordTrigger ==
    \E enabled \in BOOLEAN :
        /\ cpc = "idle"
        /\ enabled # checkRecTrigger
        /\ cop' = "setExternalRecordTrigger" /\ carg' = "" /\ cval' = 0
        /\ repeated' = FALSE
        /\ opened' = "none" /\ recovering' = FALSE
        /\ checkRecTrigger' = enabled
        /\ cframe' = EmptyMat
        /\ UNCHANGED <<cpc, cstack, cret, calls>>
        /\ UNCHANGED <<connected, running, recording, failed>>
        /\ UNCHANGED <<dataVars, camVars, loopVars, obsVars>>

ApiCurrentFrame(budget, cost) ==
    Enter("currentFrame", "cf_lock", <<>>, "", budget, cost)

\* MiniScope::setOnMessage: d->onMessageCallback = callback. The callback is
\* registered while no capture thread exists.
ApiSetOnMessage ==
    /\ cpc = "idle"
    /\ ~thread
    /\ ~onMessageCallback
    /\ onMessageCallback' = TRUE
    /\ cop' = "setOnMessage" /\ carg' = "" /\ cval' = 0
    /\ repeated' = FALSE
    /\ opened' = "none" /\ recovering' = FALSE
    /\ cframe' = EmptyMat
    /\ UNCHANGED <<cpc, cstack, cret, calls>>
    /\ UNCHANGED <<thread, droppedFramesCount, frameRing, videoFname, mutex>>
    /\ UNCHANGED <<exposure, gain, excitation>>
    /\ UNCHANGED <<flagVars, camVars, loopVars, obsVars>>

ApiSetExposure(budget, cost) ==
    \E value \in ExposureInputs :
        EnterWith("setExposure", "se_store", <<>>, "", value, budget, cost)
ApiSetGain(budget, cost) ==
    \E value \in GainInputs :
        EnterWith("setGain", "sg_store", <<>>, "", value, budget, cost)
ApiSetExcitation(budget, cost) ==
    \E value \in ExcitationInputs :
        EnterWith("setExcitation", "sx_store", <<>>, "", value, budget, cost)

\* ---- MiniScope::emitMessage on the caller thread ----
\* d->mutex.lock()
CEmitLock ==
    /\ cpc = "emit_lock"
    /\ MutexFree
    /\ mutex' = "caller"
    /\ Goto("emit_call") /\ cret' = cret
    /\ UNCHANGED <<cop, carg, cframe, calls, opened, recovering, cval, repeated>>
    /\ UNCHANGED <<thread, droppedFramesCount, frameRing, videoFname, settingVars>>
    /\ UNCHANGED <<flagVars, camVars, loopVars, obsVars>>

\* d->onMessageCallback(msg) returns; d->mutex.unlock()
CEmitCall ==
    /\ cpc = "emit_call"
    /\ mutex' = "none"
    /\ RetVoid
    /\ UNCHANGED <<cop, carg, cframe, calls, opened, recovering, cval, repeated>>
    /\ UNCHANGED <<thread, droppedFramesCount, frameRing, videoFname, settingVars>>
    /\ UNCHANGED <<flagVars, camVars, loopVars, obsVars>>

\* ---- MiniScope::setExposure ----
\* sanitize; d->exposure = value
SeStore ==
    /\ cpc = "se_store"
    /\ exposure' = SanitizeExposure(cval)
    /\ Goto("se_push") /\ cret' = cret
    /\ UNCHANGED <<cop, carg, cframe, calls, opened, recovering, cval, repeated>>
    /\ UNCHANGED <<thread, droppedFramesCount, frameRing, videoFname, mutex>>
    /\ UNCHANGED <<onMessageCallback, gain, excitation>>
    /\ UNCHANGED <<flagVars, camVars, loopVars, obsVars>>

\* d->cam.set(CV_CAP_PROP_BRIGHTNESS, static_cast<double>(d->exposure) / 100)
SePush ==
    /\ cpc = "se_push"
    /\ devBrightness' = DevSet(devBrightness, PercentProp(exposure))
    /\ RetVoid
    /\ UNCHANGED <<cop, carg, cframe, calls, opened, recovering, cval, repeated>>
    /\ UNCHANGED <<camOpened, frameSeq, grabs, devGain, devHue>>
    /\ UNCHANGED <<flagVars, dataVars, loopVars, obsVars>>

\* ---- MiniScope::setGain ----
SgStore ==
    /\ cpc = "sg_store"
    /\ gain' = cval
    /\ Goto("sg_push") /\ cret' = cret
    /\ UNCHANGED <<cop, carg, cframe, calls, opened, recovering, cval, repeated>>
    /\ UNCHANGED <<thread, droppedFramesCount, frameRing, videoFname, mutex>>
    /\ UNCHANGED <<onMessageCallback, exposure, excitation>>
    /\ UNCHANGED <<flagVars, camVars, loopVars, obsVars>>

\* d->cam.set(CV_CAP_PROP_GAIN, static_cast<double>(d->gain) / 100)
SgPush ==
    /\ cpc = "sg_push"
    /\ devGain' = DevSet(devGain, PercentProp(gain))
    /\ RetVoid
    /\ UNCHANGED <<cop, carg, cframe, calls, opened, recovering, cval, repeated>>
    /\ UNCHANGED <<camOpened, frameSeq, grabs, devBrightness, devHue>>
    /\ UNCHANGED <<flagVars, dataVars, loopVars, obsVars>>

\* ---- MiniScope::setExcitation ----
\* d->excitation = value; setLed(value) follows
SxStore ==
    /\ cpc = "sx_store"
    /\ excitation' = cval
    /\ Goto("led_push") /\ cret' = cret
    /\ UNCHANGED <<cop, carg, cframe, calls, opened, recovering, cval, repeated>>
    /\ UNCHANGED <<thread, droppedFramesCount, frameRing, videoFname, mutex>>
    /\ UNCHANGED <<onMessageCallback, exposure, gain>>
    /\ UNCHANGED <<flagVars, camVars, loopVars, obsVars>>

\* MiniScope::setLed(value): if (d->connected) d->cam.set(CV_CAP_PROP_HUE, ledPower)
LedPush ==
    /\ cpc = "led_push"
    /\ devHue' = IF connected THEN DevSet(devHue, LedPower(cval)) ELSE devHue
    /\ RetVoid
    /\ UNCHANGED <<cop, carg, cframe, calls, opened, recovering, cval, repeated>>
    /\ UNCHANGED <<camOpened, frameSeq, grabs, devBrightness, devGain>>
    /\ UNCHANGED <<flagVars, dataVars, loopVars, obsVars>>

\* ---- MiniScope::connect ----
ConnectCheck ==
    /\ cpc = "connect_check"
    /\ IF connected THEN Ret(FALSE) ELSE Goto("connect_open") /\ cret' = cret
    /\ UNCHANGED <<cop, carg, cframe, calls, opened, recovering, cval, repeated>>
    /\ UNCHANGED <<flagVars, dataVars, camVars, loopVars, obsVars>>

\* d->cam.open(d->scopeCamId): the result is not looked at
ConnectOpen ==
    /\ cpc = "connect_open"
    /\ \E ok \in BOOLEAN :
        /\ camOpened' = ok
        /\ opened' = IF ok THEN "ok" ELSE "failed"
    /\ Goto("connect_init") /\ cret' = cret
    /\ UNCHANGED <<cop, carg, cframe, calls, recovering, cval, repeated>>
    /\ UNCHANGED <<frameSeq, grabs, deviceVars>>
    /\ UNCHANGED <<flagVars, dataVars, loopVars, obsVars>>

\* cam.set(SATURATION, ...); setExposure(100); setGain(32); setExcitation(1),
\* whose setLed finds d->connected false; d->connected = true; setLed(0);
\* emitMessage; return true
ConnectInit ==
    /\ cpc = "connect_init"
    /\ exposure' = SanitizeExposure(100)
    /\ gain' = 32
    /\ excitation' = 1
    /\ devBrightness' = DevSet(devBrightness, PercentProp(SanitizeExposure(100)))
    /\ devGain' = DevSet(devGain, PercentProp(32))
    /\ devHue' = DevSet(devHue, LedPower(0))
    /\ connected' = TRUE
    /\ cret' = TRUE
    /\ CEmitLeave
    /\ UNCHANGED <<cop, carg, cframe, calls, opened, recovering, cval, repeated>>
    /\ UNCHANGED <<running, recording, failed, checkRecTrigger>>
    /\ UNCHANGED <<thread, droppedFramesCount, frameRing, videoFname, mutex>>
    /\ UNCHANGED <<onMessageCallback, camOpened, frameSeq, grabs>>
    /\ UNCHANGED <<loopVars, obsVars>>

\* ---- MiniScope::disconnect ----
\* stop() has returned:
\* d->cam.release(); emitMessage
DisconnectRelease ==
    /\ cpc = "disc_release"
    /\ camOpened' = FALSE
    /\ cret' = cret
    /\ CEmitLeave
    /\ UNCHANGED <<cop, carg, cframe, calls, opened, recovering, cval, repeated>>
    /\ UNCHANGED <<frameSeq, grabs, deviceVars>>
    /\ UNCHANGED <<flagVars, dataVars, loopVars, obsVars>>

\* ---- MiniScope::run ----
RunCheck ==
    /\ cpc = "run_check"
    /\ IF ~connected THEN Ret(FALSE) ELSE Goto("run_failed") /\ cret' = cret
    /\ UNCHANGED <<cop, carg, cframe, calls, opened, recovering, cval, repeated>>
    /\ UNCHANGED <<flagVars, dataVars, camVars, loopVars, obsVars>>

\* if (d->failed) { emitMessage; disconnect(); if (!connect()) return false; }
\* startCaptureThread(); which begins with finishCaptureThread()
RunFailed ==
    /\ cpc = "run_failed"
    /\ IF failed
       THEN /\ IF onMessageCallback
               THEN /\ cpc' = "emit_lock"
                    /\ cstack' = <<"stop_running", "disc_release",
                                   "connect_check", "run_reconnected">> \o cstack
               ELSE /\ cpc' = "stop_running"
                    /\ cstack' = <<"disc_release", "connect_check",
                                   "run_reconnected">> \o cstack
            /\ recovering' = TRUE
       ELSE /\ Call("fin_check", "sct_running")
            /\ recovering' = recovering
    /\ cret' = cret
    /\ UNCHANGED <<cop, carg, cframe, calls, opened, cval, repeated>>
    /\ UNCHANGED <<flagVars, dataVars, camVars, loopVars, obsVars>>

RunReconnected ==
    /\ cpc = "run_reconnected"
    /\ IF ~cret THEN Ret(FALSE) ELSE Call("fin_check", "sct_running") /\ cret' = cret
    /\ UNCHANGED <<cop, carg, cframe, calls, opened, recovering, cval, repeated>>
    /\ UNCHANGED <<flagVars, dataVars, camVars, loopVars, obsVars>>

\* ---- MiniScope::startCaptureThread ----
SctRunning ==
    /\ cpc = "sct_running"
    /\ running' = TRUE
    /\ Goto("sct_spawn") /\ cret' = cret
    /\ UNCHANGED <<cop, carg, cframe, calls, opened, recovering, cval, repeated>>
    /\ UNCHANGED <<connected, recording, failed, checkRecTrigger>>
    /\ UNCHANGED <<dataVars, camVars, loopVars, obsVars>>

\* d->thread = new std::thread(captureThread, this); run() returns true
SctSpawn ==
    /\ cpc = "sct_spawn"
    /\ thread' = TRUE
    /\ tasks' = tasks + 1
    /\ spawns' = spawns + 1
    /\ lpc' = "start" /\ lmsg' = "none" /\ status' = FALSE
    /\ frame' = EmptyMat /\ recNow' = FALSE /\ recordFrames' = FALSE
    /\ vwriter' = "none"
    /\ lret' = "none" /\ trigBit' = "none" /\ vwFname' = ""
    /\ Ret(TRUE)
    /\ UNCHANGED <<cop, carg, cframe, calls, opened, recovering, cval, repeated>>
    /\ UNCHANGED <<droppedFramesCount, frameRing, videoFname, mutex, settingVars>>
    /\ UNCHANGED <<failMsg, consecDrops, initCalled, encCalled, sawRec,
                   badInit, badEncode, leaked>>
    /\ UNCHANGED <<flagVars, camVars>>
    /\ UNCHANGED <<taken, dropEnded>>

\* ---- MiniScope::finishCaptureThread ----
FinCheckBody(live) ==
    /\ cpc = "fin_check"
    /\ IF live THEN Goto("fin_running") /\ cret' = cret ELSE RetVoid
    /\ UNCHANGED <<cop, carg, cframe, calls, opened, recovering, cval, repeated>>
    /\ UNCHANGED <<flagVars, dataVars, camVars, loopVars, obsVars>>

FinCheckNever == FinCheckBody(FALSE)
FinCheck == FinCheckBody(thread)

FinRunning ==
    /\ cpc = "fin_running"
    /\ running' = FALSE
    /\ Goto("fin_join") /\ cret' = cret
    /\ UNCHANGED <<cop, carg, cframe, calls, opened, recovering, cval, repeated>>
    /\ UNCHANGED <<connected, recording, failed, checkRecTrigger>>
    /\ UNCHANGED <<dataVars, camVars, loopVars, obsVars>>

\* d->thread->join(); delete d->thread; d->thread = nullptr;
\* join() returns once captureThread has returned.
FinJoin ==
    /\ cpc = "fin_join"
    /\ lpc = "done"
    /\ thread' = FALSE
    /\ lpc' = "none" /\ vwriter' = "none"
    /\ RetVoid
    /\ UNCHANGED <<cop, carg, cframe, calls, opened, recovering, cval, repeated>>
    /\ UNCHANGED <<droppedFramesCount, frameRing, videoFname, mutex, settingVars>>
    /\ UNCHANGED <<lmsg, status, frame, recNow, recordFrames, tasks, lret, trigBit, vwFname>>
    /\ UNCHANGED <<flagVars, camVars, obsVars>>

\* ---- MiniScope::stop ----
StopRunning ==
    /\ cpc = "stop_running"
    /\ running' = FALSE
    /\ Goto("stop_recording") /\ cret' = cret
    /\ UNCHANGED <<cop, carg, cframe, calls, opened, recovering, cval, repeated>>
    /\ UNCHANGED <<connected, recording, failed, checkRecTrigger>>
    /\ UNCHANGED <<dataVars, camVars, loopVars, obsVars>>

\* d->recording = false; finishCaptureThread();
StopRecordingFlag ==
    /\ cpc = "stop_recording"
    /\ recording' = FALSE
    /\ Goto("fin_check") /\ cret' = cret
    /\ UNCHANGED <<cop, carg, cframe, calls, opened, recovering, cval, repeated>>
    /\ UNCHANGED <<connected, running, failed, checkRecTrigger>>
    /\ UNCHANGED <<dataVars, camVars, loopVars, obsVars>>

\* ---- MiniScope::startRecording ----
SrCheck ==
    /\ cpc = "sr_check"
    /\ IF ~connected THEN Ret(FALSE) ELSE Goto("sr_running") /\ cret' = cret
    /\ UNCHANGED <<cop, carg, cframe, calls, opened, recovering, cval, repeated>>
    /\ UNCHANGED <<flagVars, dataVars, camVars, loopVars, obsVars>>

SrRunning ==
    /\ cpc = "sr_running"
    /\ IF ~running THEN Call("run_check", "sr_ran") ELSE Goto("sr_fname")
    /\ cret' = cret
    /\ UNCHANGED <<cop, carg, cframe, calls, opened, recovering, cval, repeated>>
    /\ UNCHANGED <<flagVars, dataVars, camVars, loopVars, obsVars>>

SrRan ==
    /\ cpc = "sr_ran"
    /\ IF ~cret THEN Ret(FALSE) ELSE Goto("sr_fname") /\ cret' = cret
    /\ UNCHANGED <<cop, carg, cframe, calls, opened, recovering, cval, repeated>>
    /\ UNCHANGED <<flagVars, dataVars, camVars, loopVars, obsVars>>

SrFname ==
    /\ cpc = "sr_fname"
    /\ videoFname' = IF carg # "" THEN carg ELSE videoFname
    /\ carg' = ""
    /\ Goto("sr_set") /\ cret' = cret
    /\ UNCHANGED <<cop, cframe, calls, opened, recovering, cval, repeated>>
    /\ UNCHANGED <<thread, droppedFramesCount, frameRing, mutex, settingVars>>
    /\ UNCHANGED <<flagVars, camVars, loopVars, obsVars>>

SrSet ==
    /\ cpc = "sr_set"
    /\ recording' = TRUE
    /\ Ret(TRUE)
    /\ UNCHANGED <<cop, carg, cframe, calls, opened, recovering, cval, repeated>>
    /\ UNCHANGED <<connected, running, failed, checkRecTrigger>>
    /\ UNCHANGED <<dataVars, camVars, loopVars, obsVars>>

\* ---- MiniScope::currentFrame ----
\* std::lock_guard; if (size() == 0) return frame; frame = front();
CfLock ==
    /\ cpc = "cf_lock"
    /\ MutexFree
    /\ mutex' = "caller"
    /\ IF Len(frameRing) = 0
       THEN cframe' = EmptyMat /\ Goto("cf_return")
       ELSE cframe' = Head(frameRing) /\ Goto("cf_pop")
    /\ UNCHANGED <<cret, cop, carg, calls, opened, recovering, cval, repeated>>
    /\ UNCHANGED <<thread, droppedFramesCount, frameRing, videoFname, settingVars>>
    /\ UNCHANGED <<flagVars, camVars, loopVars, obsVars>>

\* d->frameRing.pop_front()
CfPop ==
    /\ cpc = "cf_pop"
    /\ frameRing' = IF Len(frameRing) = 0 THEN frameRing ELSE Tail(frameRing)
    /\ taken' = cframe
    /\ Goto("cf_return")
    /\ UNCHANGED <<cret, cop, carg, cframe, calls, opened, recovering, cval, repeated>>
    /\ UNCHANGED <<thread, droppedFramesCount, videoFname, mutex, settingVars>>
    /\ UNCHANGED <<failMsg, consecDrops, spawns, initCalled, encCalled, sawRec,
                   badInit, badEncode, leaked, dropEnded>>
    /\ UNCHANGED <<flagVars, camVars, loopVars>>

\* the lock_guard goes out of scope and the frame is handed to the caller
CfReturn ==
    /\ cpc = "cf_return"
    /\ mutex' = IF mutex = "caller" THEN "none" ELSE mutex
    /\ cframe' = EmptyMat
    /\ Leave
    /\ UNCHANGED <<cret, cop, carg, calls, opened, recovering, cval, repeated>>
    /\ UNCHANGED <<thread, droppedFramesCount, frameRing, videoFname, settingVars>>
    /\ UNCHANGED <<flagVars, camVars, loopVars, obsVars>>

ConnectSteps == ConnectCheck \/ ConnectOpen \/ ConnectInit

RunSteps == RunCheck \/ RunFailed \/ SctRunning \/ SctSpawn \/ FinCheck

RestartSteps == FinRunning \/ FinJoin

StopSteps == StopRunning \/ StopRecordingFlag

RecoverSteps == DisconnectRelease \/ RunReconnected

RecordingSteps == SrCheck \/ SrRunning \/ SrRan \/ SrFname \/ SrSet

FrameSteps == CfLock \/ CfPop \/ CfReturn

\* ---- VideoWriter, as captureThread uses it ----
VwInitialized(w) == w = "initialized"
VwInitialize(w, ok) == IF ok THEN "initialized" ELSE w
VwFinalize(w) == IF w = "initialized" THEN "finalized" ELSE w
\* a writer that is destroyed while its session is still open
VwLeaks(w) == w = "initialized"

\* ---- MiniScope::fail, called on the capture thread ----
\* break after "Failed to grab frame." and "Unable to initialize recording",
\* continue after "Too many dropped frames."
FailResume(msg) == IF msg = "drops" THEN "top" ELSE "final"

FailRecording ==
    /\ lpc = "fail_recording"
    /\ recording' = FALSE
    /\ lpc' = "fail_running"
    /\ UNCHANGED <<connected, running, failed, checkRecTrigger>>
    /\ UNCHANGED <<lmsg, status, frame, recNow, recordFrames, vwriter, tasks, lret, trigBit, vwFname>>
    /\ UNCHANGED <<dataVars, camVars, callerVars, obsVars>>

FailRunning ==
    /\ lpc = "fail_running"
    /\ running' = FALSE
    /\ lpc' = "fail_failed"
    /\ UNCHANGED <<connected, recording, failed, checkRecTrigger>>
    /\ UNCHANGED <<lmsg, status, frame, recNow, recordFrames, vwriter, tasks, lret, trigBit, vwFname>>
    /\ UNCHANGED <<dataVars, camVars, callerVars, obsVars>>

\* d->failed = true; emitMessage(msg);
FailFailed ==
    /\ lpc = "fail_failed"
    /\ failed' = TRUE
    /\ failMsg' = lmsg
    /\ LEmit(FailResume(lmsg))
    /\ UNCHANGED <<connected, running, recording, checkRecTrigger>>
    /\ UNCHANGED <<lmsg, status, frame, recNow, recordFrames, vwriter, tasks,
                   trigBit, vwFname>>
    /\ UNCHANGED <<consecDrops, spawns, initCalled, encCalled, sawRec,
                   badInit, badEncode, leaked>>
    /\ UNCHANGED <<dataVars, camVars, callerVars>>
    /\ UNCHANGED <<taken, dropEnded>>

\* ---- MiniScope::emitMessage on the capture thread ----
\* d->mutex.lock()
LEmitLockBody(free) ==
    /\ lpc = "emit_lock"
    /\ free
    /\ mutex' = "loop"
    /\ lpc' = "emit_call"
    /\ UNCHANGED <<thread, droppedFramesCount, frameRing, videoFname, settingVars>>
    /\ UNCHANGED <<lmsg, status, frame, recNow, recordFrames, vwriter, tasks,
                   lret, trigBit, vwFname>>
    /\ UNCHANGED <<flagVars, camVars, callerVars, obsVars>>

LEmitLockUnguarded == LEmitLockBody(TRUE)
LEmitLock == LEmitLockBody(MutexFree)

\* d->onMessageCallback(msg) returns; d->mutex.unlock()
LEmitCall ==
    /\ lpc = "emit_call"
    /\ mutex' = "none"
    /\ lpc' = lret
    /\ lret' = "none"
    /\ UNCHANGED <<thread, droppedFramesCount, frameRing, videoFname, settingVars>>
    /\ UNCHANGED <<lmsg, status, frame, recNow, recordFrames, vwriter, tasks,
                   trigBit, vwFname>>
    /\ UNCHANGED <<flagVars, camVars, callerVars, obsVars>>

\* ---- MiniScope::captureThread ----
\* droppedFramesCount = 0; vwriter(new VideoWriter()); recordFrames = false
LoopStart ==
    /\ lpc = "start"
    /\ droppedFramesCount' = 0
    /\ consecDrops' = 0
    /\ vwriter' = "new"
    /\ recordFrames' = FALSE
    /\ lpc' = "top"
    /\ UNCHANGED <<thread, frameRing, videoFname, mutex, settingVars>>
    /\ UNCHANGED <<lmsg, status, frame, recNow, tasks, lret, trigBit, vwFname>>
    /\ UNCHANGED <<failMsg, spawns, initCalled, encCalled, sawRec,
                   badInit, badEncode, leaked>>
    /\ UNCHANGED <<flagVars, camVars, callerVars>>
    /\ UNCHANGED <<taken, dropEnded>>

\* while (self->d->running)
LoopTopBody(go) ==
    /\ lpc = "top"
    /\ lpc' = IF go THEN "trigger" ELSE "final"
    /\ UNCHANGED <<lmsg, status, frame, recNow, recordFrames, vwriter, tasks, lret, trigBit, vwFname>>
    /\ UNCHANGED <<flagVars, dataVars, camVars, callerVars, obsVars>>

LoopTopForever == LoopTopBody(TRUE)
LoopTop == LoopTopBody(running)

\* the external trigger check; bit is (temp & TRIG_RECORD_EXT) == TRIG_RECORD_EXT.
\* trigBit is what the check of this iteration read, until the iteration ends.
LoopTrigger ==
    /\ lpc = "trigger"
    /\ IF checkRecTrigger
       THEN \E bit \in BOOLEAN :
                /\ trigBit' = IF bit THEN "set" ELSE "clear"
                /\ recording' = IF bit
                                THEN (IF ~recording THEN TRUE ELSE recording)
                                ELSE FALSE
       ELSE recording' = recording /\ trigBit' = "none"
    /\ lpc' = "grab"
    /\ UNCHANGED <<connected, running, failed, checkRecTrigger>>
    /\ UNCHANGED <<lmsg, status, frame, recNow, recordFrames, vwriter, tasks,
                   lret, vwFname>>
    /\ UNCHANGED <<dataVars, camVars, callerVars, obsVars>>

\* status = cam.grab(); if (!status) { fail(...); break; }
\* A camera that is not opened grabs nothing; an opened one latches a frame
\* or not. The camera delivers frames while the budget lasts: a grab takes
\* `cost` from it.
LoopGrab(budget, cost) ==
    /\ lpc = "grab"
    /\ \E ok \in BOOLEAN :
        /\ ok => (camOpened /\ grabs + cost <= budget)
        /\ status' = ok
        /\ grabs' = IF ok THEN grabs + cost ELSE grabs
        /\ IF ok
           THEN lpc' = "retrieve" /\ lmsg' = lmsg /\ trigBit' = trigBit
           ELSE lpc' = "fail_recording" /\ lmsg' = "grab" /\ trigBit' = "none"
    /\ UNCHANGED <<frame, recNow, recordFrames, vwriter, tasks, lret, vwFname>>
    /\ UNCHANGED <<flagVars, dataVars, camOpened, frameSeq, deviceVars, callerVars, obsVars>>

\* status = cam.retrieve(frame), false when it throws
LoopRetrieve(canGood, canDrop) ==
    /\ lpc = "retrieve"
    /\ \E ok \in BOOLEAN :
        /\ ok => canGood
        /\ ~ok => canDrop
        /\ status' = ok
        /\ IF ok
           THEN /\ frameSeq' = frameSeq + 1
                /\ frame' = frameSeq + 1
                /\ consecDrops' = 0
                /\ trigBit' = trigBit
                /\ lpc' = "drift"
           ELSE /\ frameSeq' = frameSeq
                /\ frame' = EmptyMat
                /\ consecDrops' = consecDrops + 1
                /\ trigBit' = "none"
                /\ lpc' = "drop_recording"
    /\ UNCHANGED <<lmsg, recNow, recordFrames, vwriter, tasks, lret, vwFname>>
    /\ UNCHANGED <<failMsg, spawns, initCalled, encCalled, sawRec,
                   badInit, badEncode, leaked>>
    /\ UNCHANGED <<flagVars, dataVars, camOpened, grabs, deviceVars, callerVars>>
    /\ UNCHANGED <<taken, dropEnded>>

\* recording = false; droppedFramesCount++; emitMessage("Dropped frame.")
\* dropEnded: the drop ended a recording that was on, with the trigger check
\* disabled and no startRecording() under way
DropRecordingBody(rec) ==
    /\ lpc = "drop_recording"
    /\ recording' = rec
    /\ droppedFramesCount' = droppedFramesCount + 1
    /\ dropEnded' = (dropEnded \/ (recording /\ ~checkRecTrigger
                                    /\ ~(cop = "startRecording" /\ cpc # "idle")))
    /\ LEmit("drop_push")
    /\ UNCHANGED <<connected, running, failed, checkRecTrigger>>
    /\ UNCHANGED <<thread, frameRing, videoFname, mutex, settingVars>>
    /\ UNCHANGED <<lmsg, status, frame, recNow, recordFrames, vwriter, tasks,
                   trigBit, vwFname>>
    /\ UNCHANGED <<failMsg, consecDrops, spawns, initCalled, encCalled, sawRec,
                   badInit, badEncode, leaked, taken>>
    /\ UNCHANGED <<camVars, callerVars>>

DropRecordingKeeps == DropRecordingBody(recording)
DropRecording == DropRecordingBody(FALSE)

\* addFrameToBuffer: std::lock_guard; d->frameRing.push_back(frame);
\* the guard is held for the push alone. `emits`: an emitMessage follows.
AddFrameToBuffer(at, next, img, emits) ==
    /\ lpc = at
    /\ MutexFree
    /\ frameRing' = RingPush(frameRing, img)
    /\ IF emits THEN LEmit(next) ELSE lpc' = next /\ lret' = lret
    /\ UNCHANGED <<thread, droppedFramesCount, videoFname, mutex, settingVars>>
    /\ UNCHANGED <<lmsg, status, frame, recNow, recordFrames, vwriter, tasks,
                   trigBit, vwFname>>
    /\ UNCHANGED <<flagVars, camVars, callerVars, obsVars>>

\* the same push with the frame of the last successful retrieve
DropPushFrame ==
    AddFrameToBuffer("drop_push", "drop_reconnect", frame,
                     droppedFramesCount > 0)

\* self->addFrameToBuffer(droppedFrameImage);
\* if (droppedFramesCount > 0) emitMessage("Reconnecting Miniscope...")
DropPush ==
    AddFrameToBuffer("drop_push", "drop_reconnect", DroppedFrameImage,
                     droppedFramesCount > 0)

\* still in if (droppedFramesCount > 0): cam.release(); cam.open(scopeCamId);
\* emitMessage("Miniscope reconnected.")
DropReconnect ==
    /\ lpc = "drop_reconnect"
    /\ IF droppedFramesCount > 0
       THEN /\ \E ok \in BOOLEAN : camOpened' = ok
            /\ LEmit("drop_check")
       ELSE /\ camOpened' = camOpened
            /\ lpc' = "drop_check" /\ lret' = lret
    /\ UNCHANGED <<lmsg, status, frame, recNow, recordFrames, vwriter, tasks,
                   trigBit, vwFname>>
    /\ UNCHANGED <<flagVars, dataVars, frameSeq, grabs, deviceVars, callerVars,
                   obsVars>>

\* if (droppedFramesCount > 80) fail(...); continue;
DropCheckOffByOne ==
    /\ lpc = "drop_check"
    /\ IF droppedFramesCount >= DropCeiling
       THEN lpc' = "fail_recording" /\ lmsg' = "drops"
       ELSE lpc' = "top" /\ lmsg' = lmsg
    /\ UNCHANGED <<status, frame, recNow, recordFrames, vwriter, tasks, lret, trigBit, vwFname>>
    /\ UNCHANGED <<flagVars, dataVars, camVars, callerVars, obsVars>>

DropCheck ==
    /\ lpc = "drop_check"
    /\ IF droppedFramesCount > DropCeiling
       THEN lpc' = "fail_recording" /\ lmsg' = "drops"
       ELSE lpc' = "top" /\ lmsg' = lmsg
    /\ UNCHANGED <<status, frame, recNow, recordFrames, vwriter, tasks, lret, trigBit, vwFname>>
    /\ UNCHANGED <<flagVars, dataVars, camVars, callerVars, obsVars>>

\* if (droppedFramesCount > 0) { emitMessage("Sending settings again."); ...
LoopDrift ==
    /\ lpc = "drift"
    /\ IF droppedFramesCount > 0
       THEN LEmit("drift_push")
       ELSE lpc' = "rec_running" /\ lret' = lret
    /\ UNCHANGED <<lmsg, status, frame, recNow, recordFrames, vwriter, tasks,
                   trigBit, vwFname>>
    /\ UNCHANGED <<flagVars, dataVars, camVars, callerVars, obsVars>>

\* ... cam.set(CV_CAP_PROP_BRIGHTNESS, d->exposure);
\* cam.set(CV_CAP_PROP_GAIN, d->gain); setLed(d->excitation);
\* droppedFramesCount = 0; }
LoopDriftPush ==
    /\ lpc = "drift_push"
    /\ devBrightness' = DevSet(devBrightness, RawProp(exposure))
    /\ devGain' = DevSet(devGain, RawProp(gain))
    /\ devHue' = IF connected THEN DevSet(devHue, LedPower(excitation)) ELSE devHue
    /\ droppedFramesCount' = 0
    /\ lpc' = "rec_running"
    /\ UNCHANGED <<thread, frameRing, videoFname, mutex, settingVars>>
    /\ UNCHANGED <<lmsg, status, frame, recNow, recordFrames, vwriter, tasks,
                   lret, trigBit, vwFname>>
    /\ UNCHANGED <<camOpened, frameSeq, grabs>>
    /\ UNCHANGED <<flagVars, callerVars, obsVars>>

\* self->recording(): d->running && ...
RecRunning ==
    /\ lpc = "rec_running"
    /\ IF running
       THEN lpc' = "rec_recording" /\ recNow' = recNow
       ELSE lpc' = "rec_writer" /\ recNow' = FALSE
    /\ UNCHANGED <<lmsg, status, frame, recordFrames, vwriter, tasks, lret, trigBit, vwFname>>
    /\ UNCHANGED <<flagVars, dataVars, camVars, callerVars, obsVars>>

\* ... && d->recording
RecRecording ==
    /\ lpc = "rec_recording"
    /\ recNow' = recording
    /\ sawRec' = (sawRec \/ recording)
    /\ IF recording /\ ~VwInitialized(vwriter)
       THEN LEmit("rec_writer")
       ELSE lpc' = "rec_writer" /\ lret' = lret
    /\ UNCHANGED <<lmsg, status, frame, recordFrames, vwriter, tasks,
                   trigBit, vwFname>>
    /\ UNCHANGED <<failMsg, consecDrops, spawns, initCalled, encCalled,
                   badInit, badEncode, leaked>>
    /\ UNCHANGED <<flagVars, dataVars, camVars, callerVars>>
    /\ UNCHANGED <<taken, dropEnded>>

\* The two branches of if (self->recording()): open the writer when recording
\* and not initialized; finalize and replace it when not recording and
\* recordFrames is set.
RecWriterBranch(rec) ==
    /\ lpc = "rec_writer"
    /\ IF rec
       THEN IF ~VwInitialized(vwriter)
            THEN \E ok \in BOOLEAN :
                    /\ vwriter' = VwInitialize(vwriter, ok)
                    /\ initCalled' = TRUE
                    /\ badInit' = (badInit \/ ~status \/ ~recNow)
                    /\ IF ok
                       THEN /\ recordFrames' = TRUE
                            /\ vwFname' = videoFname
                            /\ LEmit("pub_push") /\ lmsg' = lmsg
                       ELSE /\ recordFrames' = recordFrames
                            /\ vwFname' = vwFname
                            /\ lpc' = "fail_recording" /\ lmsg' = "init"
                            /\ lret' = lret
                    /\ trigBit' = IF ok THEN trigBit ELSE "none"
                    /\ leaked' = leaked
            ELSE /\ lpc' = "pub_push"
                 /\ UNCHANGED <<lmsg, recordFrames, vwriter, initCalled,
                                badInit, leaked, lret, vwFname, trigBit>>
       ELSE IF recordFrames
            THEN /\ leaked' = (leaked \/ VwLeaks(VwFinalize(vwriter)))
                 /\ vwriter' = "new"
                 /\ vwFname' = ""
                 /\ recordFrames' = FALSE
                 /\ LEmit("pub_push")
                 /\ UNCHANGED <<lmsg, initCalled, badInit, trigBit>>
            ELSE /\ lpc' = "pub_push"
                 /\ UNCHANGED <<lmsg, recordFrames, vwriter, initCalled,
                                badInit, leaked, lret, vwFname, trigBit>>
    /\ UNCHANGED <<status, frame, recNow, tasks>>
    /\ UNCHANGED <<failMsg, consecDrops, spawns, encCalled, sawRec, badEncode>>
    /\ UNCHANGED <<flagVars, dataVars, camVars, callerVars>>
    /\ UNCHANGED <<taken, dropEnded>>

RecWriterInverted == RecWriterBranch(~recNow)
RecWriter == RecWriterBranch(recNow)

PubPush == AddFrameToBuffer("pub_push", "encode", frame, FALSE)

\* if (recordFrames) vwriter->encodeFrame(frame);
LoopEncode ==
    /\ lpc = "encode"
    /\ IF recordFrames
       THEN /\ encCalled' = TRUE
            /\ badEncode' = (badEncode \/ ~VwInitialized(vwriter))
       ELSE UNCHANGED <<encCalled, badEncode>>
    /\ lpc' = "top" /\ trigBit' = "none"
    /\ UNCHANGED <<lmsg, status, frame, recNow, recordFrames, vwriter, tasks, lret, vwFname>>
    /\ UNCHANGED <<failMsg, consecDrops, spawns, initCalled, sawRec,
                   badInit, leaked>>
    /\ UNCHANGED <<flagVars, dataVars, camVars, callerVars>>
    /\ UNCHANGED <<taken, dropEnded>>

\* after the loop: vwriter->finalize(); the thread function returns
LoopFinalBody(w) ==
    /\ lpc = "final"
    /\ vwriter' = w
    /\ leaked' = (leaked \/ VwLeaks(w))
    /\ tasks' = tasks - 1
    /\ lpc' = "done"
    /\ status' = FALSE /\ frame' = EmptyMat /\ recNow' = FALSE
    /\ recordFrames' = FALSE /\ lmsg' = "none"
    /\ lret' = "none" /\ trigBit' = "none" /\ vwFname' = vwFname
    /\ UNCHANGED <<failMsg, consecDrops, spawns, initCalled, encCalled, sawRec,
                   badInit, badEncode>>
    /\ UNCHANGED <<flagVars, dataVars, camVars, callerVars>>
    /\ UNCHANGED <<taken, dropEnded>>

LoopFinalNoFinalize == LoopFinalBody(vwriter)
LoopFinal == LoopFinalBody(VwFinalize(vwriter))

FailSteps == FailRecording \/ FailRunning \/ FailFailed

DropSteps == DropRecording \/ DropPush \/ DropReconnect \/ DropCheck

LoopSteps(budget, cost, canGood, canDrop) ==
    \/ LoopStart \/ LoopTop \/ LoopTrigger
    \/ LoopGrab(budget, cost) \/ LoopRetrieve(canGood, canDrop)
    \/ LoopDrift \/ LoopDriftPush \/ RecRunning \/ RecRecording \/ RecWriter
    \/ PubPush \/ LoopEncode \/ LoopFinal

\* ---- the controller under arbitrary API use ----
Next ==
    \/ ApiConnect(MaxCalls, 1) \/ ApiDisconnect(MaxCalls, 1)
    \/ ApiRun(MaxCalls, 1) \/ ApiStop(MaxCalls, 1)
    \/ ApiStartRecording(MaxCalls, 1) \/ ApiStopRecording(MaxCalls, 1)
    \/ ApiCurrentFrame(MaxCalls, 1)
    \/ ApiSetExternalRecordTrigger
    \/ ConnectSteps \/ RunSteps \/ RestartSteps \/ StopSteps \/ RecoverSteps
    \/ RecordingSteps \/ FrameSteps
    \/ LoopSteps(MaxGrabs, 1, TRUE, TRUE)
    \/ FailSteps \/ DropSteps

Spec == Init /\ [][Next]_vars

\* ---- one Capture Loop run on a camera that keeps dropping frames ----
\* connect() and one run(); the camera grabs without limit, retrieves at
\* most DropGoods frames and fails the other retrieves.
NextDrop ==
    \/ ApiConnect(0, 0)
    \/ (spawns = 0 /\ ApiRun(0, 0))
    \/ ConnectSteps \/ RunSteps
    \/ LoopSteps(0, 0, frameSeq < DropGoods, consecDrops <= DropCeiling + 1)
    \/ FailSteps \/ DropSteps

SpecDrop == Init /\ [][NextDrop]_vars

\* ---- one Capture Loop run feeding a consumer of currentFrame() ----
\* connect(), one run() and any number of currentFrame() calls; the camera
\* delivers RingSpare frames more than the ring holds.
NextRing ==
    \/ ApiConnect(0, 0)
    \/ (spawns = 0 /\ ApiRun(0, 0))
    \/ ApiCurrentFrame(0, 0)
    \/ ConnectSteps \/ RunSteps \/ FrameSteps
    \/ LoopSteps(0, 0, frameSeq < RingCapacity + RingSpare, FALSE)
    \/ FailSteps

SpecRing == Init /\ [][NextRing]_vars

\* ---- one recording session on a camera that comes loose ----
\* connect(), one startRecording() that starts the Capture Loop, and any
\* number of stopRecording() and stop() calls; the camera retrieves at most
\* DropGoods frames and, once it has dropped a frame, drops every later one.
NextExit ==
    \/ ApiConnect(0, 0)
    \/ (spawns = 0 /\ ApiStartRecording(0, 0))
    \/ ApiStopRecording(0, 0)
    \/ ApiStop(0, 0)
    \/ ConnectSteps \/ RunSteps \/ RestartSteps \/ StopSteps \/ RecordingSteps
    \/ LoopSteps(0, 0, frameSeq < DropGoods /\ consecDrops = 0,
                 consecDrops <= DropCeiling + 1)
    \/ FailSteps \/ DropSteps

SpecExit == Init /\ [][NextExit]_vars

\* ---- the controller with a message callback registered ----
\* setOnMessage() before the Capture Loop exists, then connect(), run(),
\* startRecording() and disconnect() in any order.
EmitSteps == CEmitLock \/ CEmitCall \/ LEmitLock \/ LEmitCall

NextMsg ==
    \/ ApiSetOnMessage
    \/ ApiConnect(MaxCalls, 1) \/ ApiDisconnect(MaxCalls, 1)
    \/ ApiRun(MaxCalls, 1) \/ ApiStartRecording(MaxCalls, 1)
    \/ ConnectSteps \/ RunSteps \/ RestartSteps \/ StopSteps \/ RecoverSteps
    \/ RecordingSteps \/ EmitSteps
    \/ LoopSteps(MaxGrabs, 1, TRUE, TRUE)
    \/ FailSteps \/ DropSteps

SpecMsg == Init /\ [][NextMsg]_vars

\* ---- cancellation of the Capture Loop, both threads scheduled fairly ----
\* connect() and run() within the budget of calls, stop() and
\* setExternalRecordTrigger() at any time. Each thread that can take a step
\* eventually takes one: every device and Recorder call returns.
LoopMoves == LoopSteps(MaxGrabs, 1, TRUE, TRUE) \/ FailSteps \/ DropSteps

CallerMoves == ConnectSteps \/ RunSteps \/ RestartSteps \/ StopSteps

NextStop ==
    \/ ApiConnect(MaxCalls, 1) \/ ApiRun(MaxCalls, 1)
    \/ ApiStop(MaxCalls, 0)
    \/ ApiSetExternalRecordTrigger
    \/ CallerMoves \/ LoopMoves

SpecStop ==
    Init /\ [][NextStop]_vars /\ WF_vars(CallerMoves) /\ WF_vars(LoopMoves)

\* ---- stop() and disconnect() called again and again ----
\* connect() and run() within the budget of calls, stop(), disconnect() and
\* setExternalRecordTrigger() at any time.
NextIdem ==
    \/ ApiConnect(MaxCalls, 1) \/ ApiRun(MaxCalls, 1)
    \/ ApiStop(MaxCalls, 0) \/ ApiDisconnect(MaxCalls, 0)
    \/ ApiSetExternalRecordTrigger
    \/ ConnectSteps \/ RunSteps \/ RestartSteps \/ StopSteps
    \/ DisconnectRelease
    \/ LoopSteps(MaxGrabs, 1, TRUE, TRUE)
    \/ FailSteps \/ DropSteps

SpecIdem == Init /\ [][NextIdem]_vars

\* ---- the settings of a connected, running Miniscope ----
\* connect(), one run() and setExposure(), setGain(), setExcitation() within
\* the budget of calls, on a camera that may drop frames.
SetterSteps == SeStore \/ SePush \/ SgStore \/ SgPush \/ SxStore \/ LedPush

NextDev ==
    \/ ApiConnect(MaxCalls, 0)
    \/ (spawns = 0 /\ ApiRun(MaxCalls, 0))
    \/ ApiSetExposure(MaxCalls, 1) \/ ApiSetGain(MaxCalls, 1)
    \/ ApiSetExcitation(MaxCalls, 1)
    \/ ConnectSteps \/ RunSteps \/ SetterSteps
    \/ LoopSteps(MaxGrabs, 1, TRUE, TRUE)
    \/ FailSteps \/ DropSteps

SpecDev == Init /\ [][NextDev]_vars

\* Recording sessions one after the other: startRecording is called while no
\* recording is on, so that every recording = true the loop reads was stored
\* by the startRecording that stored videoFname last. Retrieves fail only
\* before the first session is opened.
NextSession ==
    \/ ApiConnect(MaxCalls, 0)
    \/ (spawns = 0 /\ ApiRun(MaxCalls, 0))
    \/ (~recording /\ ApiStartRecording(MaxCalls, 1))
    \/ ApiStopRecording(MaxCalls, 1)
    \/ ConnectSteps \/ RunSteps \/ RecordingSteps
    \/ LoopSteps(MaxGrabs + 1, 1, TRUE, ~initCalled)
    \/ FailSteps \/ DropSteps

SpecSession == Init /\ [][NextSession]_vars

\* Recording with failed retrieves and the external trigger never enabled.
NextEnded ==
    \/ ApiConnect(MaxCalls, 0)
    \/ (spawns = 0 /\ ApiRun(MaxCalls, 0))
    \/ ApiStartRecording(MaxCalls, 1)
    \/ ApiStop(MaxCalls, 1)
    \/ ConnectSteps \/ RunSteps \/ StopSteps \/ RecordingSteps
    \/ LoopSteps(MaxGrabs + 1, 1, TRUE, TRUE)
    \/ FailSteps \/ DropSteps

SpecEnded == Init /\ [][NextEnded]_vars

\* ======================= claims =======================

\* the three statements of MiniScope::fail before it returns
InFail == lpc \in {"fail_recording", "fail_running", "fail_failed"}

\* no public call and no fail() is part-way through
Quiescent == cpc = "idle" /\ ~InFail

\* labels of one iteration of the while loop of captureThread
LoopBody ==
    {"top", "trigger", "grab", "retrieve", "drop_recording", "drop_push",
     "drop_reconnect", "drop_check", "drift", "drift_push", "rec_running",
     "rec_recording",
     "rec_writer", "pub_push", "encode"}

\* C1: whenever no public call and no fail() is part-way through, the stored
\* flags satisfy recording => running and running => connected.
C1_FlagOrder ==
    Quiescent => ((recording => running) /\ (running => connected))

\* C2: when stop() has returned, running and recording are false and no
\* Capture Loop task is alive.
C2_StopPostcondition ==
    (cpc = "idle" /\ cop = "stop")
        => (~running /\ ~recording /\ tasks = 0 /\ ~thread)

\* C3: run() on a connected controller in the failed state, with no open of
\* the device failing, reconnects, starts the Capture Loop and returns success
\* with running = true.
C3_RunRecovers ==
    (cpc = "idle" /\ cop = "run" /\ recovering /\ opened # "failed")
        => (cret /\ running /\ tasks = 1)

\* C4: when the open of the Device Handle fails during connect(), connect()
\* returns failure and connected is false; connect() returns success only
\* when the open succeeded.
C4_ConnectReportsOpenFailure ==
    (cpc = "idle" /\ cop = "connect")
        => /\ (opened = "failed" => (~cret /\ ~connected))
           /\ (cret => opened = "ok")

\* C5: after disconnect() has returned, connected, running and recording are
\* all false.
C5_DisconnectResets ==
    (cpc = "idle" /\ cop = "disconnect")
        => (~connected /\ ~running /\ ~recording)

\* C6: at most one Capture Loop task is alive at any time, and when a new
\* task is about to be spawned the previous one has been joined.
C6_OneCaptureTask ==
    /\ tasks <= 1
    /\ (cpc = "sct_spawn" => (tasks = 0 /\ ~thread))

\* a second task has been spawned, after the first was joined
C6_Witness == spawns >= 2 /\ tasks = 1 /\ lpc \in LoopBody

\* C7: drop-ceiling law. Within one Capture Loop run the loop is failed for
\* too many dropped frames exactly when 81 retrieves in a row have failed and
\* it then starts no further iteration; with 80 or fewer failed retrieves in
\* a row it is running and not failed; and after a successful retrieve the
\* drift correction leaves droppedFramesCount at 0.
C7_DropCeiling ==
    /\ consecDrops <= DropCeiling + 1
    /\ (failMsg = "drops" => consecDrops = DropCeiling + 1)
    /\ ((consecDrops = DropCeiling + 1 /\ lpc \in {"top", "final", "done"})
            => (failed /\ ~running /\ failMsg = "drops"))
    /\ (consecDrops = DropCeiling + 1 => lpc \notin {"trigger", "grab", "retrieve"})
    /\ ((lpc \in LoopBody /\ consecDrops <= DropCeiling)
            => (running /\ ~failed))
    /\ ((lpc \in {"rec_running", "rec_recording", "rec_writer", "pub_push", "encode"})
            => (status /\ droppedFramesCount = 0 /\ ~failed))

\* a retrieve has succeeded after 80 failed ones, before the drift correction
C7_Witness == lpc = "drift" /\ status /\ droppedFramesCount = DropCeiling

\* C8: the frame ring is a bounded FIFO with drop-oldest overflow. It never
\* holds more than 64 frames; it holds consecutive frames, the last one being
\* the newest frame pushed (the retrieved frame is pushed at "pub_push"); a frame is missing between the one currentFrame() returned last
\* and the oldest retained one only while the ring is full; currentFrame()
\* returns the frame it removes, which was the oldest, or the empty sentinel
\* with the ring empty.
C8_RingFifo ==
    /\ Len(frameRing) <= RingCapacity
    /\ \A i \in 1..(Len(frameRing) - 1) : frameRing[i + 1] = frameRing[i] + 1
    /\ (frameRing # <<>>
            => frameRing[Len(frameRing)] =
                 IF lpc \in {"drift", "rec_running", "rec_recording",
                             "rec_writer", "pub_push"}
                 THEN frame - 1 ELSE frameSeq)
    /\ ((frameRing # <<>> /\ Len(frameRing) < RingCapacity /\ cpc # "cf_pop")
            => Head(frameRing) = taken + 1)
    /\ (cpc = "cf_pop" => (frameRing # <<>> /\ cframe = Head(frameRing)))
    /\ ((cpc = "cf_return" /\ cframe # EmptyMat)
            => (taken = cframe /\ (frameRing # <<>> => Head(frameRing) = cframe + 1)))
    /\ ((cpc = "cf_return" /\ cframe = EmptyMat) => frameRing = <<>>)

\* currentFrame() has returned a frame from a ring that overflowed before
C8_Witness ==
    /\ cpc = "cf_return" /\ cframe > 1 /\ taken = cframe
    /\ frameSeq > RingCapacity
    /\ Len(frameRing) = RingCapacity - 1

\* C9: Recorder.initialize is called only in an iteration that retrieved a
\* frame and read recording as true, encodeFrame only on an initialized
\* Recorder; without an iteration that read recording as true the Recorder
\* is never initialized and encodeFrame never called.
C9_RecorderUse ==
    /\ ~badInit
    /\ ~badEncode
    /\ (initCalled => sawRec)
    /\ (encCalled => initCalled)
    /\ (recordFrames => VwInitialized(vwriter))

\* a frame has been encoded into an initialized Recorder
C9_Witness == initCalled /\ encCalled /\ ~recording /\ cop = "stopRecording"

\* C10: when the Capture Loop task has ended no Recorder session is left
\* initialized and not finalized.
C10_NoOpenSessionAtExit ==
    /\ (lpc \in {"done", "none"} => ~VwInitialized(vwriter))
    /\ ~leaked

\* the task has ended on the drop ceiling with a session that it finalized
\* on the way out
C10_Witness ==
    lpc = "done" /\ vwriter = "finalized" /\ encCalled /\ failMsg = "drops"

\* the thread is between the entry of the registered callback and its return
CallerInCallback == cpc = "emit_call"
LoopInCallback == lpc = "emit_call"

\* C11: the registered message callback never runs in the caller thread and
\* in the capture thread at the same time; the thread that runs it holds the
\* mutex.
C11_CallbackSerialized ==
    /\ ~(CallerInCallback /\ LoopInCallback)
    /\ (CallerInCallback => mutex = "caller")
    /\ (LoopInCallback => mutex = "loop")

\* run() wants to emit its recovery message while the capture thread is
\* inside the callback with the failure message
C11_Witness ==
    /\ cpc = "emit_lock" /\ cop = "run" /\ LoopInCallback /\ lmsg = "grab"

\* C12: with running false the test of the while loop ends the loop; running
\* is set only while no Capture Loop task is alive; a live task whose
\* running flag is false ends; and a stop() under way returns.
C12_LoopObservesCancel ==
    /\ [][(lpc = "top" /\ ~running /\ lpc' # lpc) => lpc' = "final"]_vars
    /\ [][(~running /\ running') => tasks = 0]_vars
    /\ ((tasks = 1 /\ ~running) ~> (tasks = 0))
    /\ ((cop = "stop" /\ cpc # "idle") ~> (cpc = "idle"))

\* stop() waits in join() while the loop is in the middle of an iteration
C12_Witness ==
    /\ cop = "stop" /\ cpc = "fin_join" /\ ~running /\ lpc = "retrieve"

\* C13: a stop() that directly follows a stop(), and a disconnect() that
\* directly follows a disconnect(), change nothing of connected, running,
\* recording, failed, the capture task handle and the frame ring.
C13_StopDisconnectIdempotent ==
    [][(repeated /\ cpc # "idle")
          => UNCHANGED <<connected, running, recording, failed, thread,
                         frameRing>>]_vars

\* C14: when setExposure(e) has returned, the stored exposure is e clamped to
\* [1, 100], for zero and negative e too.
C14_ExposureClamped ==
    (cpc = "idle" /\ cop = "setExposure")
        => exposure = (IF cval < 1 THEN 1 ELSE IF cval > 100 THEN 100 ELSE cval)

\* C18: when the drift correction pushes the settings, the camera gets the
\* values the setters push for the stored exposure, gain and excitation, and
\* droppedFramesCount becomes 0; an iteration that follows no dropped frame
\* pushes nothing.
C18_DriftRepushesSettings ==
    /\ [][(lpc = "drift_push" /\ lpc' # lpc)
             => /\ devBrightness' = DevSet(devBrightness, PercentProp(exposure))
                /\ devGain' = DevSet(devGain, PercentProp(gain))
                /\ devHue' = DevSet(devHue, LedPower(excitation))
                /\ droppedFramesCount' = 0]_vars
    /\ [][(lpc = "drift" /\ droppedFramesCount = 0 /\ lpc' # lpc)
             => (lpc' = "rec_running" /\ UNCHANGED deviceVars)]_vars

\* control is at a call on d->cam that has begun and has not returned
CallerInDevice == cpc \in {"connect_open", "disc_release", "se_push", "sg_push"}
                  \/ (cpc = "led_push" /\ connected)
LoopInDevice == lpc \in {"grab", "retrieve", "drift_push"}
                \/ (lpc = "drop_reconnect" /\ droppedFramesCount > 0)

\* C19: the caller thread and the capture thread are never inside calls on
\* the Device Handle at the same time.
C19_DeviceSerialized == ~(CallerInDevice /\ LoopInDevice)

\* C15: with the external trigger check enabled, a frame of an iteration
\* whose check read the record bit as not set is not handed to encodeFrame,
\* and a check that reads the bit as set leaves recording true.
C15_TriggerDecidesFrame ==
    /\ [](~(lpc = "encode" /\ recordFrames /\ trigBit = "clear"))
    /\ [][(lpc = "trigger" /\ lpc' = "grab" /\ trigBit' = "set")
             => recording']_vars

\* the retrieve failure path of an iteration
DropPath == {"drop_recording", "drop_push", "drop_reconnect", "drop_check"}

\* C16: a failed retrieve is a soft failure. The iteration goes through the
\* failure path and to no other part of the loop body: it stores recording =
\* false and adds one to droppedFramesCount, pushes one placeholder frame
\* into the ring and nothing else, hands nothing to the Recorder, and ends
\* with the next iteration, leaving running and failed as they are, unless
\* droppedFramesCount is above 80, when it calls fail(); failed is false on
\* the whole path.
C16_SoftFailure ==
    /\ [][(lpc = "retrieve" /\ lpc' # lpc /\ ~status')
             => (lpc' = "drop_recording" /\ UNCHANGED <<droppedFramesCount,
                                                        frameRing>>)]_vars
    /\ [][(lpc = "drop_recording" /\ lpc' # lpc)
             => /\ lpc' = "drop_push"
                /\ ~recording'
                /\ droppedFramesCount' = droppedFramesCount + 1
                /\ frameRing' = frameRing]_vars
    /\ [][(lpc = "drop_push" /\ lpc' # lpc)
             => /\ lpc' = "drop_reconnect"
                /\ frameRing' = RingPush(frameRing, DroppedFrameImage)
                /\ droppedFramesCount' = droppedFramesCount]_vars
    /\ [][(lpc = "drop_reconnect" /\ lpc' # lpc)
             => (lpc' = "drop_check" /\ UNCHANGED <<droppedFramesCount,
                                                    frameRing>>)]_vars
    /\ [][(lpc = "drop_check" /\ lpc' # lpc)
             => /\ UNCHANGED <<droppedFramesCount, frameRing, running, failed>>
                /\ lpc' = IF droppedFramesCount > DropCeiling
                          THEN "fail_recording" ELSE "top"]_vars
    /\ [][(lpc \in DropPath)
             => (UNCHANGED <<vwriter, recordFrames, encCalled, initCalled>>)]_vars
    /\ [](lpc \in DropPath => ~failed)

\* a retrieve failed while a recording was being written: the placeholder is
\* in the ring, recording is off and the loop is about to go on
C16_Witness ==
    /\ lpc = "drop_check" /\ droppedFramesCount = 1
    /\ VwInitialized(vwriter) /\ encCalled /\ ~recording /\ running
    /\ frameRing # <<>> /\ frameRing[Len(frameRing)] = DroppedFrameImage

\* C17: the frames of a startRecording(path) that follows a stopRecording()
\* go to a Recorder session initialized with that path: whenever the loop
\* reads recording = true (line 544), a session that is still open is the
\* session of the path stored last, the earlier one having been finalized
\* and reset by the iteration after the stopRecording().
C17_FreshSessionAfterStop ==
    [][(lpc = "rec_recording" /\ lpc' = "rec_writer" /\ recNow'
          /\ VwInitialized(vwriter))
         => vwFname = videoFname]_vars

\* C20: with the external trigger disabled, a failed retrieve during an
\* active recording ends it for good. Until startRecording() is called again
\* recording stays false, no frame is handed to the Recorder, and the session
\* that was open is finalized by the next iteration that retrieves a frame or
\* by the exit of the loop.
C20_DropEndsRecording ==
    /\ (dropEnded => ~checkRecTrigger /\ ~recording)
    /\ ~(dropEnded /\ lpc = "encode" /\ recordFrames)
    /\ (dropEnded /\ lpc \in {"pub_push", "encode", "done"}
          => ~VwInitialized(vwriter))

\* a session was written to, a retrieve failed, and the next iteration that
\* retrieved a frame has finalized and reset the Recorder
C20_Witness ==
    /\ dropEnded /\ encCalled /\ lpc = "pub_push" /\ status
    /\ vwriter = "new" /\ ~recordFrames /\ droppedFramesCount = 0

====
